---- MODULE Spec2Model ----
(***************************************************************************)
(* Model of lambda/index.py: the chat relay handler that builds a prompt   *)
(* from the conversation history, probes GET /health, calls POST /generate *)
(* and shapes the reply or a 500 error response.                           *)
(*                                                                         *)
(* Texts are sequences of one-character strings, so that capitalize(),     *)
(* join(), f-string formatting and substring tests are computed on         *)
(* characters.  A character outside ASCII is written by its code point.    *)
(***************************************************************************)
EXTENDS Integers, Sequences, FiniteSets, TLC

VARIABLES inv, twin, COLAB_API_KEY

vars == <<inv, twin, COLAB_API_KEY>>

(* Longest conversation history drawn for an inbound request. *)
MaxHist == 2

(* ------------------------------ texts ---------------------------------- *)
ascii_lowercase ==
    <<"a", "b", "c", "d", "e", "f", "g", "h", "i", "j", "k", "l", "m", "n", "o", "p", "q", "r", "s", "t", "u", "v", "w", "x", "y", "z">>
ascii_uppercase ==
    <<"A", "B", "C", "D", "E", "F", "G", "H", "I", "J", "K", "L", "M", "N", "O", "P", "Q", "R", "S", "T", "U", "V", "W", "X", "Y", "Z">>
digits ==
    <<"0", "1", "2", "3", "4", "5", "6", "7", "8", "9">>
GENERATE_PATH ==
    <<"/", "g", "e", "n", "e", "r", "a", "t", "e">>
HEALTH_PATH ==
    <<"/", "h", "e", "a", "l", "t", "h">>
ArnPattern ==
    <<"a", "r", "n", ":", "a", "w", "s", ":", "l", "a", "m", "b", "d", "a", ":">>
DefaultRegion ==
    <<"u", "s", "-", "e", "a", "s", "t", "-", "1">>
ArnWellFormed ==
    <<"a", "r", "n", ":", "a", "w", "s", ":", "l", "a", "m", "b", "d", "a", ":", "e", "u", ":", "1">>
ArnMalformed ==
    <<"b", "o", "g", "u", "s">>
RoleUser ==
    <<"u", "s", "e", "r">>
RoleAssistant ==
    <<"a", "s", "s", "i", "s", "t", "a", "n", "t">>
TxtHi ==
    <<"h", "i">>
TxtTwoLines ==
    <<"a", "\n", "b">>
TxtYo ==
    <<"y", "o">>
TxtHello ==
    <<"h", "e", "l", "l", "o">>
TxtBusy ==
    <<"b", "u", "s", "y">>
ApiKey ==
    <<"k">>
KeyBody ==
    <<"b", "o", "d", "y">>
KeyMessage ==
    <<"m", "e", "s", "s", "a", "g", "e">>
KeyRole ==
    <<"r", "o", "l", "e">>
KeyResponseTime ==
    <<"r", "e", "s", "p", "o", "n", "s", "e", "_", "t", "i", "m", "e">>
KeyGeneratedText ==
    <<"g", "e", "n", "e", "r", "a", "t", "e", "d", "_", "t", "e", "x", "t">>
UserPrefix ==
    <<"U", "s", "e", "r", ":", " ">>
AssistantSuffix ==
    <<"\n", "A", "s", "s", "i", "s", "t", "a", "n", "t", ":">>
ColonSpace ==
    <<":", " ">>
Newline ==
    <<"\n">>
Quote ==
    <<"'">>
MsgExpectingValue ==
    <<"E", "x", "p", "e", "c", "t", "i", "n", "g", " ", "v", "a", "l", "u", "e", ":", " ", "l", "i", "n", "e", " ", "1", " ", "c", "o", "l", "u", "m", "n", " ", "1", " ", "(", "c", "h", "a", "r", " ", "0", ")">>
MsgListIndices ==
    <<"l", "i", "s", "t", " ", "i", "n", "d", "i", "c", "e", "s", " ", "m", "u", "s", "t", " ", "b", "e", " ", "i", "n", "t", "e", "g", "e", "r", "s", " ", "o", "r", " ", "s", "l", "i", "c", "e", "s", ",", " ", "n", "o", "t", " ", "s", "t", "r">>
MsgNoneNotIterable ==
    <<"'", "N", "o", "n", "e", "T", "y", "p", "e", "'", " ", "o", "b", "j", "e", "c", "t", " ", "i", "s", " ", "n", "o", "t", " ", "i", "t", "e", "r", "a", "b", "l", "e">>
MsgUnknownFormat ==
    <<"U", "n", "k", "n", "o", "w", "n", " ", "f", "o", "r", "m", "a", "t", " ", "c", "o", "d", "e", " ", "'", "f", "'", " ", "f", "o", "r", " ", "o", "b", "j", "e", "c", "t", " ", "o", "f", " ", "t", "y", "p", "e", " ", "'", "s", "t", "r", "'">>
MsgNoGeneratedText ==
    <<"F", "a", "s", "t", "A", "P", "I", " ", "U+304B", "U+3089", " ", "'", "g", "e", "n", "e", "r", "a", "t", "e", "d", "_", "t", "e", "x", "t", "'", " ", "U+304C", "U+8FD4", "U+308A", "U+307E", "U+305B", "U+3093", "U+3067", "U+3057", "U+305F">>
MsgTimedOut ==
    <<"t", "i", "m", "e", "d", " ", "o", "u", "t">>
MsgRefused ==
    <<"[", "E", "r", "r", "n", "o", " ", "1", "1", "1", "]", " ", "C", "o", "n", "n", "e", "c", "t", "i", "o", "n", " ", "r", "e", "f", "u", "s", "e", "d">>
MsgHttpErrorSpace ==
    <<"H", "T", "T", "P", " ", "E", "r", "r", "o", "r", " ">>
ReasonUnavailable ==
    <<"S", "e", "r", "v", "i", "c", "e", " ", "U", "n", "a", "v", "a", "i", "l", "a", "b", "l", "e">>
ReasonNotFound ==
    <<"N", "o", "t", " ", "F", "o", "u", "n", "d">>
HTTPErrorPrefix ==
    <<"H", "T", "T", "P", "E", "r", "r", "o", "r", " ">>
URLErrorPrefix ==
    <<"U", "R", "L", "E", "r", "r", "o", "r", ":", " ">>
CapUser ==
    <<"U", "s", "e", "r">>
CapAssistant ==
    <<"A", "s", "s", "i", "s", "t", "a", "n", "t">>
UrlopenErrorOpen ==
    <<"<", "u", "r", "l", "o", "p", "e", "n", " ", "e", "r", "r", "o", "r", " ">>
UrlopenErrorClose ==
    <<">">>

(* ------------------------- string operations --------------------------- *)
IndexOf(alphabet, c) ==
    IF \E i \in 1..Len(alphabet) : alphabet[i] = c
    THEN CHOOSE i \in 1..Len(alphabet) : alphabet[i] = c
    ELSE 0

upper(c) ==
    IF IndexOf(ascii_lowercase, c) > 0 THEN ascii_uppercase[IndexOf(ascii_lowercase, c)] ELSE c

lower(c) ==
    IF IndexOf(ascii_uppercase, c) > 0 THEN ascii_lowercase[IndexOf(ascii_uppercase, c)] ELSE c

(* str.capitalize(): first character upper-cased, the others lower-cased. *)
capitalize(s) ==
    [i \in 1..Len(s) |-> IF i = 1 THEN upper(s[i]) ELSE lower(s[i])]

(* sep.join(parts) *)
RECURSIVE join(_, _)
join(sep, parts) ==
    IF Len(parts) = 0 THEN <<>>
    ELSE IF Len(parts) = 1 THEN parts[1]
    ELSE parts[1] \o sep \o join(sep, Tail(parts))

(* needle in hay *)
Contains(hay, needle) ==
    \E i \in 1..(Len(hay) - Len(needle) + 1) :
        SubSeq(hay, i, i + Len(needle) - 1) = needle

(* f"{n}" of a non-negative integer *)
RECURSIVE IntToStr(_)
IntToStr(n) ==
    IF n < 10 THEN <<digits[n + 1]>>
    ELSE IntToStr(n \div 10) \o <<digits[(n % 10) + 1]>>

(* str(KeyError(key)) is repr(key) *)
KeyErrorText(key) ==
    Quote \o key \o Quote

(* re.search(r"arn:aws:lambda:([^:]+):", arn): the leftmost match, group 1 *)
RegionMatches(arn) ==
    {p \in (1..Len(arn)) \X (1..Len(arn)) :
        /\ p[1] + Len(ArnPattern) - 1 <= Len(arn)
        /\ SubSeq(arn, p[1], p[1] + Len(ArnPattern) - 1) = ArnPattern
        /\ p[2] > p[1] + Len(ArnPattern)
        /\ arn[p[2]] = ":"
        /\ \A k \in (p[1] + Len(ArnPattern))..(p[2] - 1) : arn[k] # ":"}

extract_region_from_arn(arn) ==
    IF RegionMatches(arn) = {} THEN DefaultRegion
    ELSE LET p == CHOOSE q \in RegionMatches(arn) :
                      \A r \in RegionMatches(arn) : q[1] <= r[1]
         IN  SubSeq(arn, p[1] + Len(ArnPattern), p[2] - 1)

(* ------------------------------ inputs --------------------------------- *)
Roles == {RoleUser, RoleAssistant}
Contents == {TxtHi, TxtTwoLines}
Messages == {TxtYo, <<>>}

(* A history entry; hasRole = FALSE is an entry without the "role" key. *)
Entries ==
    [hasRole : {TRUE}, role : Roles, content : Contents]
    \cup {[hasRole |-> FALSE, role |-> <<>>, content |-> TxtHi]}

Histories == UNION {[1..n -> Entries] : n \in 0..MaxHist}

(* The event: body absent, body not JSON, a JSON array, or a JSON object  *)
(* with or without "message" and with "conversationHistory" absent, null  *)
(* or a list.                                                             *)
MalformedEvents ==
    {[hasBody |-> b[1], bodyJson |-> b[2], hasMessage |-> FALSE, message |-> <<>>,
      histKind |-> "absent", history |-> <<>>] :
        b \in {<<FALSE, "none">>, <<TRUE, "bad">>, <<TRUE, "array">>, <<TRUE, "object">>}}

MessageEvents ==
    [hasBody : {TRUE}, bodyJson : {"object"}, hasMessage : {TRUE}, message : Messages,
     histKind : {"absent", "null"}, history : {<<>>}]
    \cup
    [hasBody : {TRUE}, bodyJson : {"object"}, hasMessage : {TRUE}, message : Messages,
     histKind : {"list"}, history : Histories]

Events == MalformedEvents \cup MessageEvents

(* The invocation context the Lambda runtime passes: invoked_function_arn  *)
(* is a string, well formed or not.                                        *)
RuntimeContexts ==
    [hasArn : {TRUE}, arn : {ArnWellFormed, ArnMalformed}]

(* A context whose invoked_function_arn is None. *)
AnyContexts ==
    RuntimeContexts \cup {[hasArn |-> FALSE, arn |-> <<>>]}

HealthOutcomes == {"ok", "refused", "timeout", "garbage"}

HttpCodes == {404, 503}

(* What the upstream does with POST /generate. *)
GenOutcomes ==
    [kind : {"json_object"}, hasText : {TRUE}, text : {TxtHello, <<>>},
     rt : {"absent", "float", "str"}, code : {0}, body : {<<>>}]
    \cup
    [kind : {"json_object"}, hasText : {FALSE}, text : {<<>>},
     rt : {"absent", "float"}, code : {0}, body : {<<>>}]
    \cup
    [kind : {"not_json", "refused", "connect_timeout", "read_timeout"}, hasText : {FALSE},
     text : {<<>>}, rt : {"absent"}, code : {0}, body : {<<>>}]
    \cup
    [kind : {"http_error"}, hasText : {FALSE}, text : {<<>>}, rt : {"absent"},
     code : HttpCodes, body : {<<>>, TxtBusy}]

NoGen ==
    [kind |-> "none", hasText |-> FALSE, text |-> <<>>, rt |-> "absent", code |-> 0,
     body |-> <<>>]

(* ----------------------------- exceptions ------------------------------ *)
NoExc ==
    [cls |-> "none", msg |-> <<>>, code |-> 0, body |-> <<>>, reason |-> <<>>]

Exc(cls, msg) ==
    [cls |-> cls, msg |-> msg, code |-> 0, body |-> <<>>, reason |-> <<>>]

HttpReason(code) ==
    IF code = 404 THEN ReasonNotFound ELSE ReasonUnavailable

(* urllib.error.HTTPError(url, code, msg, hdrs, fp); reason is msg *)
HTTPError(code, body) ==
    [cls |-> "HTTPError",
     msg |-> MsgHttpErrorSpace \o IntToStr(code) \o ColonSpace \o HttpReason(code),
     code |-> code, body |-> body, reason |-> HttpReason(code)]

(* urllib.error.URLError(reason) *)
URLError(reason) ==
    [cls |-> "URLError", msg |-> UrlopenErrorOpen \o reason \o UrlopenErrorClose,
     code |-> 0, body |-> <<>>, reason |-> reason]

(* isinstance(e, cls): HTTPError is a subclass of URLError *)
IsInstance(e, cls) ==
    \/ e.cls = cls
    \/ cls = "URLError" /\ e.cls = "HTTPError"
    \/ cls = "Exception"

(* ------------------------- the handler's frame -------------------------- *)
NoResponse ==
    [statusCode |-> 0, keys |-> {}, success |-> FALSE, response |-> <<>>,
     conversationHistory |-> <<>>, error |-> <<>>]

(* One invocation of lambda_handler(event, context): its position, its     *)
(* locals, the requests it has sent and the value it returned.             *)
NewFrame(event, context) ==
    [pc |-> "start", event |-> event, context |-> context, region |-> <<>>,
     health |-> "none", outbound |-> <<>>, user_msg |-> <<>>,
     historyIsList |-> FALSE, history |-> <<>>, prompt_text |-> <<>>,
     gen |-> NoGen, exc |-> NoExc, response |-> NoResponse]

Terminal == {"Succeeded", "Failed", "Crashed"}

(* _build_request: POST with a body when a payload is given, GET without;  *)
(* the Authorization header only when COLAB_API_KEY is set.                *)
_build_request(path, hasPayload, prompt, apiKey, timeout) ==
    [method |-> IF hasPayload THEN "POST" ELSE "GET", path |-> path,
     contentType |-> "application/json", bearer |-> apiKey,
     hasData |-> hasPayload, prompt |-> prompt, timeout |-> timeout]

(* _call_fastapi: what urlopen / read / json.loads raise for an upstream   *)
(* outcome; NoExc when the parsed JSON is returned.  A timeout while       *)
(* connecting or sending is wrapped in URLError, a timeout while reading   *)
(* the response is raised as TimeoutError itself.                          *)
_call_fastapi(g) ==
    CASE g.kind = "json_object" -> NoExc
      [] g.kind = "not_json" -> Exc("JSONDecodeError", MsgExpectingValue)
      [] g.kind = "http_error" -> HTTPError(g.code, g.body)
      [] g.kind = "refused" -> URLError(MsgRefused)
      [] g.kind = "connect_timeout" -> URLError(MsgTimedOut)
      [] g.kind = "read_timeout" -> Exc("TimeoutError", MsgTimedOut)

(* _error_response(message) *)
_error_response(message) ==
    [statusCode |-> 500, keys |-> {"success", "error"}, success |-> FALSE,
     response |-> <<>>, conversationHistory |-> <<>>, error |-> message]

(* line 48-49: the region label, read from context.invoked_function_arn    *)
(* before any try block; re.search raises TypeError on None.               *)
DoStart(f) ==
    IF f.context.hasArn
    THEN [f EXCEPT !.pc = "health", !.region = extract_region_from_arn(f.context.arn)]
    ELSE [f EXCEPT !.pc = "Crashed"]

AfterHealth_Propagate(h) ==
    IF h = "ok" THEN "parse" ELSE "except"

(* lines 52-56: try / except Exception around the probe; both branches     *)
(* fall through to the main try block.                                     *)
AfterHealth(h) ==
    "parse"

(* lines 51-56: GET /health with timeout 5 *)
DoHealthProbe(f, h, apiKey) ==
    [f EXCEPT !.pc = AfterHealth(h), !.health = h,
              !.outbound = Append(@, _build_request(HEALTH_PATH, FALSE, <<>>, apiKey, 5))]

body_message_get(ev) ==
    IF ~ev.hasBody THEN Exc("KeyError", KeyErrorText(KeyBody))
    ELSE IF ev.bodyJson = "bad" THEN Exc("JSONDecodeError", MsgExpectingValue)
    ELSE IF ev.bodyJson = "array" THEN Exc("TypeError", MsgListIndices)
    ELSE NoExc

(* lines 60-61: json.loads(event["body"]) and body["message"] *)
body_message(ev) ==
    IF ~ev.hasBody THEN Exc("KeyError", KeyErrorText(KeyBody))
    ELSE IF ev.bodyJson = "bad" THEN Exc("JSONDecodeError", MsgExpectingValue)
    ELSE IF ev.bodyJson = "array" THEN Exc("TypeError", MsgListIndices)
    ELSE IF ~ev.hasMessage THEN Exc("KeyError", KeyErrorText(KeyMessage))
    ELSE NoExc

(* lines 60-62: body, user_msg, history = body.get(..., []) *)
DoParseInput(f) ==
    IF body_message(f.event) # NoExc
    THEN [f EXCEPT !.pc = "except", !.exc = body_message(f.event)]
    ELSE [f EXCEPT !.pc = "prompt",
                   !.user_msg = f.event.message,
                   !.historyIsList = (f.event.histKind # "null"),
                   !.history = IF f.event.histKind = "list" THEN f.event.history ELSE <<>>]

FormatEntry_NoCapitalize(m) ==
    m.role \o ColonSpace \o m.content

(* line 65: f"{m['role'].capitalize()}: {m['content']}" *)
FormatEntry(m) ==
    capitalize(m.role) \o ColonSpace \o m.content

(* lines 65-67: the comprehension, the appended last part and the join *)
BuildPromptText(history, user_msg) ==
    LET prompt_parts == [i \in 1..Len(history) |-> FormatEntry(history[i])]
    IN  join(Newline, Append(prompt_parts, UserPrefix \o user_msg \o AssistantSuffix))

(* lines 65-75: iterating None raises TypeError, m['role'] raises KeyError *)
DoBuildPrompt(f) ==
    IF ~f.historyIsList
    THEN [f EXCEPT !.pc = "except", !.exc = Exc("TypeError", MsgNoneNotIterable)]
    ELSE IF \E i \in 1..Len(f.history) : ~f.history[i].hasRole
    THEN [f EXCEPT !.pc = "except", !.exc = Exc("KeyError", KeyErrorText(KeyRole))]
    ELSE [f EXCEPT !.pc = "generate",
                   !.prompt_text = BuildPromptText(f.history, f.user_msg)]

(* line 81: POST /generate with the payload, timeout 60 *)
DoCallGenerate(f, g, apiKey) ==
    [f EXCEPT !.pc = IF _call_fastapi(g) = NoExc THEN "reply" ELSE "except",
              !.gen = g,
              !.exc = _call_fastapi(g),
              !.outbound = Append(@, _build_request(GENERATE_PATH, TRUE, f.prompt_text,
                                                    apiKey, 60))]

Falsy_OnlyNone(reply) ==
    ~reply.present

(* line 85: not assistant_reply, for None and for "" *)
Falsy(reply) ==
    ~reply.present \/ reply.text = <<>>

(* lines 84-109: the reply check, the log line that formats                *)
(* result['response_time'], history.append and the 200 response.           *)
DoReply(f) ==
    LET assistant_reply == [present |-> f.gen.hasText, text |-> f.gen.text]
    IN  IF Falsy(assistant_reply)
        THEN [f EXCEPT !.pc = "except", !.exc = Exc("ValueError", MsgNoGeneratedText)]
        ELSE IF f.gen.rt = "absent"
        THEN [f EXCEPT !.pc = "except",
                       !.exc = Exc("KeyError", KeyErrorText(KeyResponseTime))]
        ELSE IF f.gen.rt = "str"
        THEN [f EXCEPT !.pc = "except", !.exc = Exc("ValueError", MsgUnknownFormat)]
        ELSE LET extended == Append(f.history,
                                    [hasRole |-> TRUE, role |-> RoleAssistant,
                                     content |-> assistant_reply.text])
             IN  [f EXCEPT !.pc = "Succeeded",
                           !.history = extended,
                           !.response = [statusCode |-> 200,
                                         keys |-> {"success", "response", "conversationHistory"},
                                         success |-> TRUE,
                                         response |-> assistant_reply.text,
                                         conversationHistory |-> extended,
                                         error |-> <<>>]]

ExceptClause_UrlFirst(e) ==
    IF IsInstance(e, "URLError") THEN "URLError"
    ELSE IF IsInstance(e, "HTTPError") THEN "HTTPError"
    ELSE "Exception"

(* lines 112-119: the first except clause, in order, that matches *)
ExceptClause(e) ==
    IF IsInstance(e, "HTTPError") THEN "HTTPError"
    ELSE IF IsInstance(e, "URLError") THEN "URLError"
    ELSE "Exception"

ErrorText_NoDetail(e) ==
    CASE ExceptClause(e) = "HTTPError" ->
             HTTPErrorPrefix \o IntToStr(e.code) \o ColonSpace \o e.body
      [] ExceptClause(e) = "URLError" -> URLErrorPrefix
      [] OTHER -> <<>>

(* lines 113-120: the message each clause hands to _error_response *)
ErrorText(e) ==
    CASE ExceptClause(e) = "HTTPError" ->
             HTTPErrorPrefix \o IntToStr(e.code) \o ColonSpace \o e.body
      [] ExceptClause(e) = "URLError" -> URLErrorPrefix \o e.reason
      [] OTHER -> e.msg

DoExcept_RetryOnce(f) ==
    IF ExceptClause(f.exc) = "URLError" /\ Len(f.outbound) < 3
    THEN [f EXCEPT !.pc = "generate", !.exc = NoExc]
    ELSE [f EXCEPT !.pc = "Failed", !.response = _error_response(ErrorText(f.exc))]

(* lines 112-120: every exception of the main try block becomes a 500 *)
DoExcept(f) ==
    [f EXCEPT !.pc = "Failed", !.response = _error_response(ErrorText(f.exc))]

(* ------------------------------ actions -------------------------------- *)
Start ==
    /\ inv.pc = "start"
    /\ inv' = DoStart(inv)
    /\ UNCHANGED <<twin, COLAB_API_KEY>>

HealthProbe ==
    /\ inv.pc = "health"
    /\ \E h \in HealthOutcomes : inv' = DoHealthProbe(inv, h, COLAB_API_KEY)
    /\ UNCHANGED <<twin, COLAB_API_KEY>>

ParseInput ==
    /\ inv.pc = "parse"
    /\ inv' = DoParseInput(inv)
    /\ UNCHANGED <<twin, COLAB_API_KEY>>

BuildPrompt ==
    /\ inv.pc = "prompt"
    /\ inv' = DoBuildPrompt(inv)
    /\ UNCHANGED <<twin, COLAB_API_KEY>>

CallGenerate ==
    /\ inv.pc = "generate"
    /\ \E g \in GenOutcomes : inv' = DoCallGenerate(inv, g, COLAB_API_KEY)
    /\ UNCHANGED <<twin, COLAB_API_KEY>>

Reply ==
    /\ inv.pc = "reply"
    /\ inv' = DoReply(inv)
    /\ UNCHANGED <<twin, COLAB_API_KEY>>

Except ==
    /\ inv.pc = "except"
    /\ inv' = DoExcept(inv)
    /\ UNCHANGED <<twin, COLAB_API_KEY>>

Next ==
    \/ Start
    \/ HealthProbe
    \/ ParseInput
    \/ BuildPrompt
    \/ CallGenerate
    \/ Reply
    \/ Except

InitWith(contexts) ==
    /\ COLAB_API_KEY \in {<<>>, ApiKey}
    /\ inv \in {NewFrame(ev, ctx) : ev \in Events, ctx \in contexts}
    /\ twin = inv

Init == InitWith(RuntimeContexts)

Spec == Init /\ [][Next]_vars

(* A context without a usable invoked_function_arn is handed in as well. *)
InitCtx == InitWith(AnyContexts)

SpecCtx == InitCtx /\ [][Next]_vars

(* Each step of the handler is straight-line code or a call with a        *)
(* timeout (5 and 60), so a started invocation keeps going.               *)
FairSpec == Init /\ [][Next]_vars /\ WF_vars(Next)

(* ------------- a second invocation with the same request --------------- *)
(* After the first invocation has returned, the handler runs once more on  *)
(* the same event and context; the upstream answers POST /generate as it   *)
(* did the first time, the probe's outcome is drawn afresh.                *)
TwinStart ==
    /\ inv.pc \in Terminal /\ twin.pc = "start"
    /\ twin' = DoStart(twin)
    /\ UNCHANGED <<inv, COLAB_API_KEY>>

TwinHealthProbe ==
    /\ inv.pc \in Terminal /\ twin.pc = "health"
    /\ \E h \in HealthOutcomes : twin' = DoHealthProbe(twin, h, COLAB_API_KEY)
    /\ UNCHANGED <<inv, COLAB_API_KEY>>

TwinParseInput ==
    /\ inv.pc \in Terminal /\ twin.pc = "parse"
    /\ twin' = DoParseInput(twin)
    /\ UNCHANGED <<inv, COLAB_API_KEY>>

TwinBuildPrompt ==
    /\ inv.pc \in Terminal /\ twin.pc = "prompt"
    /\ twin' = DoBuildPrompt(twin)
    /\ UNCHANGED <<inv, COLAB_API_KEY>>

TwinCallGenerate ==
    /\ inv.pc \in Terminal /\ twin.pc = "generate"
    /\ \E g \in (IF inv.gen = NoGen THEN GenOutcomes ELSE {inv.gen}) :
           twin' = DoCallGenerate(twin, g, COLAB_API_KEY)
    /\ UNCHANGED <<inv, COLAB_API_KEY>>

TwinReply ==
    /\ inv.pc \in Terminal /\ twin.pc = "reply"
    /\ twin' = DoReply(twin)
    /\ UNCHANGED <<inv, COLAB_API_KEY>>

TwinExcept ==
    /\ inv.pc \in Terminal /\ twin.pc = "except"
    /\ twin' = DoExcept(twin)
    /\ UNCHANGED <<inv, COLAB_API_KEY>>

NextPair ==
    \/ Next
    \/ TwinStart
    \/ TwinHealthProbe
    \/ TwinParseInput
    \/ TwinBuildPrompt
    \/ TwinCallGenerate
    \/ TwinReply
    \/ TwinExcept

SpecPair == Init /\ [][NextPair]_vars

(* ------------------------------ claims --------------------------------- *)
(* The history the request carries: the list under "conversationHistory",  *)
(* empty when the key is absent.                                           *)
InboundHistory(ev) ==
    IF ev.histKind = "list" THEN ev.history ELSE <<>>

Posts(f) ==
    {i \in 1..Len(f.outbound) : f.outbound[i].method = "POST"}

CapitalizedRole(role) ==
    IF role = RoleUser THEN CapUser
    ELSE IF role = RoleAssistant THEN CapAssistant
    ELSE role

RECURSIVE ExpectedPrompt(_, _)
ExpectedPrompt(H, m) ==
    IF H = <<>> THEN UserPrefix \o m \o AssistantSuffix
    ELSE CapitalizedRole(H[1].role) \o ColonSpace \o H[1].content \o Newline
         \o ExpectedPrompt(Tail(H), m)

(* C1: the prompt of every POST /generate is the lines                     *)
(* "<Capitalized role>: <content>" of the inbound history, in order, one   *)
(* per entry, then "User: <message>\nAssistant:", joined by one newline.   *)
C1_PromptIsFormattedHistory ==
    \A i \in Posts(inv) :
        inv.outbound[i].prompt
            = ExpectedPrompt(InboundHistory(inv.event), inv.event.message)

C1_Witness ==
    /\ Posts(inv) # {}
    /\ Len(InboundHistory(inv.event)) = 2
    /\ inv.event.history[1].role = RoleUser
    /\ inv.event.history[2].role = RoleAssistant
    /\ inv.event.history[2].content = TxtTwoLines

AssistantEntry(g) ==
    [hasRole |-> TRUE, role |-> RoleAssistant, content |-> g]

GoodReply(g) ==
    g.kind = "json_object" /\ g.hasText /\ g.text # <<>>

(* C2: a 2xx JSON answer with a non-empty generated_text g, whatever       *)
(* response_time is and whether it is there, gives statusCode 200,         *)
(* success, response g and the inbound history plus one assistant entry.   *)
C2_GoodReplySucceeds ==
    (inv.pc \in Terminal /\ GoodReply(inv.gen)) =>
        /\ inv.pc = "Succeeded"
        /\ inv.response.statusCode = 200
        /\ inv.response.success
        /\ inv.response.response = inv.gen.text
        /\ inv.response.conversationHistory
               = Append(InboundHistory(inv.event), AssistantEntry(inv.gen.text))

(* C3: two invocations on the same request whose /generate call has the    *)
(* same outcome return the same response whatever their probes did, and    *)
(* the probe decides neither whether the POST is sent nor what it carries; *)
(* a failed probe before a successful generate call gives success.         *)
C3_ProbeNeverAltersResult ==
    (inv.pc \in Terminal /\ twin.pc \in Terminal) =>
        /\ Cardinality(Posts(inv)) = Cardinality(Posts(twin))
        /\ \A i \in Posts(inv) : i \in Posts(twin) /\ inv.outbound[i] = twin.outbound[i]
        /\ inv.gen = twin.gen => (inv.pc = twin.pc /\ inv.response = twin.response)
        /\ (twin.health # "ok" /\ GoodReply(twin.gen) /\ twin.gen.rt = "float")
               => (twin.pc = "Succeeded" /\ twin.response.success)

C3_Witness ==
    /\ inv.pc = "Succeeded" /\ twin.pc = "Succeeded"
    /\ inv.health = "ok" /\ twin.health = "refused"
    /\ twin.response.success

(* C4: every invocation, whatever the event and the context, returns a     *)
(* response with a boolean success flag; no exception leaves the handler.  *)
C4_AlwaysStructuredResponse ==
    /\ inv.pc # "Crashed"
    /\ inv.pc \in Terminal =>
           ("success" \in inv.response.keys /\ inv.response.statusCode \in {200, 500})

BadInput(ev) ==
    ~ev.hasBody \/ ev.bodyJson # "object" \/ ~ev.hasMessage

(* C5: a body that is not JSON or has no message field gives a 500 with    *)
(* success false and an error string, no response and no history field,    *)
(* and no POST /generate is sent.                                          *)
C5_BadInputFailsWithoutPost ==
    BadInput(inv.event) =>
        /\ Posts(inv) = {}
        /\ inv.pc \in Terminal =>
               /\ inv.pc = "Failed"
               /\ inv.response.statusCode = 500
               /\ ~inv.response.success
               /\ inv.response.keys = {"success", "error"}
               /\ Len(inv.response.error) > 0

C5_Witness ==
    /\ inv.pc = "Failed"
    /\ inv.event.hasBody /\ inv.event.bodyJson = "object" /\ ~inv.event.hasMessage
    /\ inv.response.error = KeyErrorText(KeyMessage)

(* C6: a JSON answer without generated_text, or with the empty string,     *)
(* gives a 500 with success false and an error that names generated_text;  *)
(* no reply, no history in the response, no assistant entry appended.      *)
C6_MissingTextFails ==
    (inv.pc \in Terminal /\ inv.gen.kind = "json_object"
         /\ (~inv.gen.hasText \/ inv.gen.text = <<>>)) =>
        /\ inv.pc = "Failed"
        /\ inv.response.statusCode = 500
        /\ ~inv.response.success
        /\ Contains(inv.response.error, KeyGeneratedText)
        /\ inv.response.keys = {"success", "error"}
        /\ inv.history = InboundHistory(inv.event)

C6_Witness ==
    /\ inv.pc = "Failed"
    /\ inv.gen.kind = "json_object" /\ inv.gen.hasText /\ inv.gen.text = <<>>
    /\ inv.gen.rt = "float"
    /\ Len(inv.history) = 1

(* C7: a non-2xx answer with status c and body b gives a 500 with success  *)
(* false and an error that holds c and b, reported by the HTTPError        *)
(* clause and not by the URLError or the generic clause.                   *)
C7_HttpStatusReported ==
    (inv.pc \in Terminal /\ inv.gen.kind = "http_error") =>
        /\ inv.pc = "Failed"
        /\ inv.response.statusCode = 500
        /\ ~inv.response.success
        /\ Contains(inv.response.error, IntToStr(inv.gen.code))
        /\ Contains(inv.response.error, inv.gen.body)
        /\ SubSeq(inv.response.error, 1, Len(HTTPErrorPrefix)) = HTTPErrorPrefix
        /\ ~Contains(inv.response.error, URLErrorPrefix)

C7_Witness ==
    /\ inv.pc = "Failed"
    /\ inv.gen.kind = "http_error" /\ inv.gen.code = 503 /\ inv.gen.body = TxtBusy
    /\ inv.response.error
           = <<"H", "T", "T", "P", "E", "r", "r", "o", "r", " ", "5", "0", "3", ":", " ",
               "b", "u", "s", "y">>

(* C8: a timeout of the /generate call, while connecting or while reading  *)
(* the answer, gives a 500 with success false and an error that says the   *)
(* call timed out.                                                         *)
C8_TimeoutReported ==
    (inv.pc \in Terminal /\ inv.gen.kind \in {"connect_timeout", "read_timeout"}) =>
        /\ inv.pc = "Failed"
        /\ inv.response.statusCode = 500
        /\ ~inv.response.success
        /\ Contains(inv.response.error, MsgTimedOut)

C8_Witness ==
    /\ inv.pc = "Failed"
    /\ inv.gen.kind = "read_timeout"
    /\ inv.response.error = MsgTimedOut

(* C9: the history list read from the request is never changed in place:   *)
(* when the handler has returned, it holds the entries the request had.    *)
C9_HistoryNotMutated ==
    (inv.pc \in Terminal /\ inv.historyIsList) =>
        inv.history = InboundHistory(inv.event)

Rank(pc) ==
    CASE pc = "start" -> 0
      [] pc = "health" -> 1
      [] pc = "parse" -> 2
      [] pc = "prompt" -> 3
      [] pc = "generate" -> 4
      [] pc = "reply" -> 5
      [] pc = "except" -> 6
      [] OTHER -> 7

Calls(f) ==
    [i \in 1..Len(f.outbound) |-> <<f.outbound[i].method, f.outbound[i].path>>]

(* C10: one pass, no loop: at most one GET /health and one POST /generate, *)
(* the probe first; every step moves forward, so nothing is sent again     *)
(* after a failure; and the invocation ends Succeeded or Failed.           *)
C10_OnePassToTerminal ==
    /\ [](Calls(inv) \in {<<>>, <<<<"GET", HEALTH_PATH>>>>,
                          <<<<"GET", HEALTH_PATH>>, <<"POST", GENERATE_PATH>>>>})
    /\ [][Rank(inv'.pc) > Rank(inv.pc)]_inv
    /\ <>(inv.pc \in {"Succeeded", "Failed"})

C10_Witness ==
    /\ inv.pc = "Failed"
    /\ inv.gen.kind = "refused"
    /\ Len(inv.outbound) = 2
    /\ inv.health = "timeout"
====
